---- MODULE Spec2Model ----
(***************************************************************************)
(* Model of the local-to-remote synchronisation scripts: remove_local.py   *)
(* (verify-and-delete), run.py (locked upload run), src/localfile.py (path *)
(* utilities), src/rclone_client.py and src/openlist.py (remote clients).  *)
(*                                                                         *)
(* A local path is a sequence of entry names; a name is a natural number   *)
(* whose order is the lexicographic order of the names it stands for.      *)
(* Paths of length 1 are the configured local source directories.          *)
(***************************************************************************)
EXTENDS Integers, Sequences, FiniteSets, TLC

\* ------------------------------------------------------------------ bounds
MaxDepth == 4      \* longest local path, the source directory included
MaxNodes == 4      \* directories and files of the initial local tree
MaxEnv == 1        \* external modifications of the local tree in one behaviour
MaxLen == 3        \* longest remote_path string handed to upload_file
MaxEntries == 2    \* most entries of one list-valued environment variable

Names == {1, 2}
Procs == {1, 2}    \* operating-system processes running a script

VARIABLES
    dirs,          \* local directories that exist
    files,         \* local regular files that exist
    pairs,         \* directory_pairs: sequence of [loc, rem]
    remoteEnv,     \* RCLONE_REMOTE: [set, val]
    remote,        \* remote state: remote path -> "true" | "false" | "raise"
    proc,          \* per process: program counter and locals
    run,           \* 1 for the first run of the script, 2 for the run after it
    envSteps,      \* external modifications so far
    lockHolder,    \* process holding the flock on run.lock (0: nobody)
    lockContent,   \* pid written in run.lock (0: empty file)
    runLog,        \* processes whose lines logs/run.log holds
    hist,          \* history: what the runs did
    mode,          \* "verify": remove_local.py, "upload": run.py, "client": one client
                   \* call, "config": one load_directory_pairs call
    cl             \* one call taken by itself (upload_file, load_directory_pairs):
                   \* its inputs, its position, its result

vars == <<dirs, files, pairs, remoteEnv, remote, proc, run, envSteps,
          lockHolder, lockContent, runLog, hist, mode, cl>>

\* ------------------------------------------------------------- local tree
PathU == UNION {[1..n -> Names] : n \in 1..MaxDepth}
Roots == {p \in PathU : Len(p) = 1}
Parent(p) == SubSeq(p, 1, Len(p) - 1)
Last(p) == p[Len(p)]
IsPrefix(a, b) == Len(a) <= Len(b) /\ SubSeq(b, 1, Len(a)) = a

\* entries of directory d among the paths S
ChildrenIn(d, S) == {p \in S : Len(p) = Len(d) + 1 /\ Parent(p) = d}

Cand(t) == {p \in PathU : p \notin (t.d \cup t.f) /\ (Len(p) = 1 \/ Parent(p) \in t.d)}
Grow(t) == {[d |-> t.d \cup {p}, f |-> t.f] : p \in {q \in Cand(t) : Len(q) < MaxDepth}}
           \cup {[d |-> t.d, f |-> t.f \cup {p}] : p \in {q \in Cand(t) : Len(q) > 1}}
RECURSIVE TreesUpTo(_)
TreesUpTo(k) ==
    IF k = 0 THEN {[d |-> {}, f |-> {}]}
    ELSE LET T == TreesUpTo(k - 1) IN T \cup UNION {Grow(t) : t \in T}
\* names are used from the first on: a tree differing only by a renaming that
\* keeps the order of the names behaves the same
Canon(t) == \A p \in t.d \cup t.f : Last(p) > 1 => (Parent(p) \o <<Last(p) - 1>>) \in t.d \cup t.f
Trees == {t \in TreesUpTo(MaxNodes) : Canon(t)}

\* ---------------------------------------------------------------- strings
\* A string is a sequence of one-character strings.
RECURSIVE ReplaceBackslash(_)
ReplaceBackslash(s) ==
    IF s = <<>> THEN <<>>
    ELSE <<IF Head(s) = "\\" THEN "/" ELSE Head(s)>> \o ReplaceBackslash(Tail(s))

RECURSIVE RStrip(_, _)
RStrip(s, c) ==
    IF s # <<>> /\ s[Len(s)] = c THEN RStrip(SubSeq(s, 1, Len(s) - 1), c) ELSE s

RECURSIVE LStrip(_, _)
LStrip(s, c) == IF s # <<>> /\ Head(s) = c THEN LStrip(Tail(s), c) ELSE s

Strip(s) == LStrip(RStrip(s, " "), " ")

_normalize_remote_root(remote_root) ==
    LET normalized == RStrip(ReplaceBackslash(remote_root), "/") IN
    IF normalized = <<>> THEN <<"/">>
    ELSE IF Head(normalized) # "/" THEN <<"/">> \o normalized
    ELSE normalized

_normalize_remote_path(remote_path) ==
    LET normalized == ReplaceBackslash(remote_path) IN
    IF normalized = <<>> \/ Head(normalized) # "/" THEN <<"/">> \o normalized
    ELSE normalized

\* RcloneClient(): the remote alias, or ValueError when it is empty
RcloneRemote == IF remoteEnv.set THEN Strip(remoteEnv.val) ELSE <<"1", "2", "3">>
ClientConstructs == RcloneRemote # <<>>

\* ------------------------------------------------------------ configuration
RemoteRootValues == {<<"/">>, <<"r", "/">>}
RemoteEnvValues == {[set |-> FALSE, val |-> <<>>], [set |-> TRUE, val |-> <<" ">>]}
PairValues == [loc : Roots, rem : RemoteRootValues]
PairLists == {<<>>} \cup {<<a>> : a \in PairValues}
             \cup {<<a, b>> : a \in PairValues, b \in PairValues}
NoDuplicates(s) == \A i, j \in 1..Len(s) : s[i] = s[j] => i = j

\* ------------------------------------------------------------ path utilities
Perms(S) == {s \in [1..Cardinality(S) -> S] : \A i, j \in 1..Cardinality(S) : s[i] = s[j] => i = j}

\* list.sort() on the names of one directory's entries
RECURSIVE Insert(_, _)
Insert(p, s) ==
    IF s = <<>> THEN <<p>>
    ELSE IF Last(p) <= Last(Head(s)) THEN <<p>> \o s
    ELSE <<Head(s)>> \o Insert(p, Tail(s))
Unsorted(s) == s
RECURSIVE SortByName(_)
SortByName(s) == IF s = <<>> THEN <<>> ELSE Insert(Head(s), SortByName(Tail(s)))

\* ensure_directory: the path itself (paths are absolute and free of links),
\* or NotADirectoryError
ensure_directory(path) == path \in dirs

\* relative_posix(file_path, root_dir): names below the root joined by "/"
RECURSIVE JoinPosix(_)
JoinPosix(names) ==
    IF names = <<>> THEN <<>>
    ELSE IF Len(names) = 1 THEN <<ToString(Head(names))>>
    ELSE <<ToString(Head(names)), "/">> \o JoinPosix(Tail(names))
relative_posix(file_path, root_dir) ==
    IF ~ensure_directory(root_dir) THEN [exc |-> "NotADirectoryError", val |-> <<>>]
    ELSE IF file_path \notin dirs \cup files THEN [exc |-> "FileNotFoundError", val |-> <<>>]
    ELSE [exc |-> "", val |-> JoinPosix(SubSeq(file_path, Len(root_dir) + 1, Len(file_path)))]

\* remove_file(path): the exception it raises, "" when it unlinked the file
remove_file(path) ==
    IF path \notin dirs \cup files THEN "FileNotFoundError"
    ELSE IF path \notin files THEN "IsADirectoryError"
    ELSE ""

\* the orchestrators' remote path of a file (the f-strings)
RemotePathOf(normalized_remote_root, relative_remote) ==
    IF normalized_remote_root = <<"/">> THEN <<"/">> \o relative_remote
    ELSE normalized_remote_root \o <<"/">> \o relative_remote

\* ------------------------------------------------------------------ processes
IdleProc ==
    [pc |-> "idle", pi |-> 0, stack |-> <<>>, pending |-> <<>>, pstack |-> <<>>,
     rm |-> 0, processed |-> 0, removed |-> 0, totProcessed |-> 0,
     totRemoved |-> 0, totCleaned |-> 0, fileCount |-> 0, exit |-> -1,
     exc |-> "", late |-> FALSE, pre |-> [d |-> {}, f |-> {}, env |-> 0],
     tree |-> [d |-> {}, f |-> {}], yielded |-> <<>>]

NoHist ==
    [checked |-> {}, deleted |-> {}, visited |-> {}, uploaded |-> {},
     prunes |-> {}, rmdirs |-> {}, retained |-> {}, walks |-> {}]

Base(p) == pairs[proc[p].pi].loc
RemoteRoot(p) == _normalize_remote_root(pairs[proc[p].pi].rem)

\* An exception leaving the per-pair loop. remove_local.main has no handler: the
\* interpreter prints the traceback and exits 1. _run_upload's outer handlers
\* print and return (ValueError) or print and sys.exit(1); main's finally clause
\* runs either way.
Raise(r, exc) ==
    IF mode = "verify" THEN [r EXCEPT !.pc = "exited", !.exit = 1, !.exc = exc]
    ELSE IF exc = "ValueError" THEN [r EXCEPT !.pc = "finally", !.exit = 0, !.exc = exc]
    ELSE [r EXCEPT !.pc = "finally", !.exit = 1, !.exc = exc]

\* run.py mirrors what it prints into logs/run.log
Printed(p) == IF mode = "upload" THEN runLog \cup {p} ELSE runLog
\* _run_upload's outer handler prints the error it caught
LogOnRaise(p) ==
    runLog' = IF mode = "upload" /\ proc'[p].exc # proc[p].exc THEN runLog \cup {p} ELSE runLog

\* ------------------------------------------------------------- remote client
\* RcloneClient.remote_file_exists: what one call may answer. The listing of the
\* parent directory is a function of the remote state, fixed when first read.
remote_file_exists(remote_path) ==
    LET normalized == _normalize_remote_path(remote_path) IN
    IF RStrip(normalized, "/") = <<>> THEN {"ValueError"}
    ELSE IF normalized \in DOMAIN remote THEN {remote[normalized]}
    ELSE {"true", "false", "raise"}

Observe(remote_path, out) ==
    LET normalized == _normalize_remote_path(remote_path) IN
    [x \in DOMAIN remote \cup {normalized} |-> IF x = normalized THEN out ELSE remote[x]]

\* ------------------------------------------------- iter_files_sorted (os.walk)
\* One resumption of the generator with no file left to yield: scan the next
\* directory, sort its names, queue its files and descend into its directories.
\* pc "iter": the generator has not run yet; "first": no file was yielded yet.
\* run.py prints its scan line once the first next() has returned or stopped.
WalkNext(p) ==
    LET r == proc[p]
        searching == IF r.pc = "walk" THEN "walk" ELSE "first"
    IN
    /\ r.pc \in {"iter", "first", "walk"}
    /\ r.pending = <<>>
    /\ IF r.pc = "iter" /\ ~ensure_directory(Base(p))
       THEN proc' = [proc EXCEPT ![p] = Raise(r, "NotADirectoryError")]
       ELSE IF r.stack = <<>>
       THEN proc' = [proc EXCEPT ![p] = [r EXCEPT !.pc = "prune"]]
       ELSE IF Head(r.stack) \notin dirs
       THEN proc' = [proc EXCEPT ![p] = [r EXCEPT !.pc = searching, !.stack = Tail(r.stack)]]
       ELSE \E dirnames \in Perms(ChildrenIn(Head(r.stack), dirs)),
               filenames \in Perms(ChildrenIn(Head(r.stack), files)) :
                proc' = [proc EXCEPT ![p] =
                            [r EXCEPT !.pc = IF filenames # <<>> THEN "walk" ELSE searching,
                                      !.stack = SortByName(dirnames) \o Tail(r.stack),
                                      !.pending = SortByName(filenames)]]
    /\ runLog' = IF mode = "upload" /\ (proc'[p].exc # r.exc
                                        \/ (r.pc # "walk" /\ proc'[p].pc \in {"walk", "prune"}))
                 THEN runLog \cup {p} ELSE runLog
    /\ hist' = IF proc'[p].pc = "prune"      \* StopIteration: the traversal is over
               THEN [hist EXCEPT !.walks = @ \cup
                       {[p |-> p, run |-> run, pi |-> r.pi, base |-> Base(p),
                         d |-> r.tree.d, f |-> r.tree.f, seq |-> r.yielded]}]
               ELSE hist
    /\ UNCHANGED <<dirs, files, pairs, remoteEnv, remote, run, envSteps,
                   lockHolder, lockContent, mode, cl>>

\* -------------------------------------------------- remove_empty_directories
ScanFrame(d) == [k |-> "scan", d |-> d, nf |-> FALSE]
ScanFrames(ds) == [i \in 1..Len(ds) |-> ScanFrame(ds[i])]

\* os.walk(topdown=False): a directory is yielded after its subdirectories
WalkOrderTopDown(subdirs, yielded) == <<yielded>> \o ScanFrames(subdirs)
WalkOrder(subdirs, yielded) == ScanFrames(subdirs) \o <<yielded>>

\* the loop body up to rmdir, for a yielded directory
PruneDecision(filenames_nonempty, is_dir, has_entries, is_root) ==
    IF filenames_nonempty THEN "skip"
    ELSE IF ~is_dir THEN "raise"          \* current_path.iterdir() is outside the try
    ELSE IF has_entries THEN "skip"
    ELSE IF is_root THEN "skip"           \* preserve_root
    ELSE "rmdir"

PruneStart(p) ==
    LET r == proc[p] IN
    /\ r.pc = "prune"
    /\ IF ~ensure_directory(Base(p))
       THEN proc' = [proc EXCEPT ![p] = Raise(r, "NotADirectoryError")]
       ELSE proc' = [proc EXCEPT ![p] =
                        [r EXCEPT !.pc = "pwalk", !.rm = 0,
                                  !.pstack = <<ScanFrame(Base(p))>>,
                                  !.pre = [d |-> dirs, f |-> files, env |-> envSteps]]]
    /\ LogOnRaise(p)
    /\ UNCHANGED <<dirs, files, pairs, remoteEnv, remote, run, envSteps,
                   lockHolder, lockContent, hist, mode, cl>>

PruneStep(p) ==
    LET r == proc[p]
        fr == Head(r.pstack)
        rest == Tail(r.pstack)
        entries == ChildrenIn(fr.d, dirs \cup files)
    IN
    /\ r.pc = "pwalk"
    /\ r.pstack # <<>>
    /\ \/ /\ fr.k = "scan"
          /\ IF fr.d \notin dirs
             THEN proc' = [proc EXCEPT ![p] = [r EXCEPT !.pstack = rest]]
             ELSE \E dirnames \in Perms(ChildrenIn(fr.d, dirs)) :
                    proc' = [proc EXCEPT ![p] = [r EXCEPT !.pstack =
                        WalkOrder(dirnames,
                                  [k |-> "yield", d |-> fr.d,
                                   nf |-> ChildrenIn(fr.d, files) # {}]) \o rest]]
          /\ UNCHANGED <<dirs, hist>>
       \/ /\ fr.k = "yield"
          /\ LET dec == PruneDecision(fr.nf, fr.d \in dirs, entries # {}, fr.d = Base(p)) IN
             proc' = [proc EXCEPT ![p] =
                        IF dec = "raise" THEN Raise(r, "prune:FileNotFoundError")
                        ELSE IF dec = "rmdir"
                        THEN [r EXCEPT !.pstack = <<[fr EXCEPT !.k = "rmdir"]>> \o rest]
                        ELSE [r EXCEPT !.pstack = rest]]
          /\ UNCHANGED <<dirs, hist>>
       \/ /\ fr.k = "rmdir"
          /\ IF fr.d \in dirs /\ entries = {}
             THEN /\ dirs' = dirs \ {fr.d}
                  /\ proc' = [proc EXCEPT ![p] = [r EXCEPT !.pstack = rest, !.rm = r.rm + 1]]
                  /\ hist' = [hist EXCEPT !.rmdirs = @ \cup {[p |-> p, d |-> fr.d, base |-> Base(p),
                                 hadFile |-> ChildrenIn(fr.d, files) # {}]}]
             ELSE /\ proc' = [proc EXCEPT ![p] = [r EXCEPT !.pstack = rest]]   \* OSError
                  /\ UNCHANGED <<dirs, hist>>
    /\ LogOnRaise(p)
    /\ UNCHANGED <<files, pairs, remoteEnv, remote, run, envSteps,
                   lockHolder, lockContent, mode, cl>>

\* the call returns; the orchestrator adds the count and goes to the next pair
PruneReturn(p) ==
    LET r == proc[p] IN
    /\ r.pc = "pwalk"
    /\ r.pstack = <<>>
    /\ proc' = [proc EXCEPT ![p] =
                  [r EXCEPT !.pc = "pair", !.pi = r.pi + 1, !.totCleaned = r.totCleaned + r.rm]]
    /\ hist' = [hist EXCEPT !.prunes = @ \cup
                  {[p |-> p, run |-> run, pi |-> r.pi, base |-> Base(p),
                    pred |-> r.pre.d, pref |-> r.pre.f, postd |-> dirs, postf |-> files,
                    ret |-> r.rm, quiet |-> envSteps = r.pre.env,
                    processed |-> r.processed, removed |-> r.removed]}]
    /\ runLog' = IF r.rm > 0 THEN Printed(p) ELSE runLog
    /\ UNCHANGED <<dirs, files, pairs, remoteEnv, remote, run, envSteps,
                   lockHolder, lockContent, mode, cl>>

\* ----------------------------------------------------- the per-pair loop head
\* for source_dir, remote_root in directory_pairs: ensure_directory, or the end
\* of the loop and the final summary
NextPair(p) ==
    LET r == proc[p] IN
    /\ r.pc = "pair"
    /\ IF r.pi > Len(pairs)
       THEN /\ proc' = [proc EXCEPT ![p] =
                          IF mode = "verify" THEN [r EXCEPT !.pc = "exited", !.exit = 0]
                          ELSE [r EXCEPT !.pc = "finally", !.exit = 0]]
            /\ runLog' = Printed(p)
       ELSE IF ~ensure_directory(pairs[r.pi].loc)
       THEN /\ proc' = [proc EXCEPT ![p] = [r EXCEPT !.pi = r.pi + 1]]
            /\ runLog' = Printed(p)
       ELSE /\ proc' = [proc EXCEPT ![p] =
                          [r EXCEPT !.pc = "iter", !.stack = <<pairs[r.pi].loc>>,
                                    !.pending = <<>>, !.processed = 0, !.removed = 0,
                                    !.tree = [d |-> dirs, f |-> files],
                                    !.yielded = <<>>]]
            /\ UNCHANGED runLog
    /\ UNCHANGED <<dirs, files, pairs, remoteEnv, remote, run, envSteps,
                   lockHolder, lockContent, hist, mode, cl>>

\* ------------------------------------------------- remove_local.py: main
VStart(p) ==
    LET r == proc[p] IN
    /\ mode = "verify"
    /\ r.pc = "idle"
    /\ proc' = [proc EXCEPT ![p] =
                  IF pairs = <<>> THEN [r EXCEPT !.pc = "exited", !.exit = 1, !.exc = "no pairs"]
                  ELSE IF ~ClientConstructs
                  THEN [r EXCEPT !.pc = "exited", !.exit = 1, !.exc = "ValueError"]
                  ELSE [r EXCEPT !.pc = "pair", !.pi = 1]]
    /\ UNCHANGED <<dirs, files, pairs, remoteEnv, remote, run, envSteps,
                   lockHolder, lockContent, runLog, hist, mode, cl>>

\* what the loop body does with the answer of remote_file_exists
VerifyDecisionOnError(out) == IF out = "false" THEN "keep" ELSE "remove"
VerifyDecision(out) ==
    IF out = "raise" THEN "keep"          \* except RuntimeError: continue
    ELSE IF out = "true" THEN "remove"
    ELSE "keep"

\* processed += 1; total_processed += 1: ahead of the check, whatever it answers
CountProcessedAfterCheck(n, out) == IF out = "raise" THEN n ELSE n + 1
CountProcessed(n, out) == n + 1

\* the loop body up to the answer of remote_file_exists
VerifyFile(p) ==
    LET r == proc[p]
        file_path == Head(r.pending)
        relative_remote == relative_posix(file_path, Base(p))
        remote_path == RemotePathOf(RemoteRoot(p), relative_remote.val)
    IN
    /\ mode = "verify"
    /\ r.pc = "walk"
    /\ r.pending # <<>>
    /\ IF relative_remote.exc # ""
       THEN /\ proc' = [proc EXCEPT ![p] =
                          Raise(r, "relative_posix:" \o relative_remote.exc)]
            /\ UNCHANGED <<remote, hist>>
       ELSE \E out \in remote_file_exists(remote_path) :
              LET counted == [r EXCEPT !.processed = CountProcessed(r.processed, out),
                                       !.totProcessed = CountProcessed(r.totProcessed, out),
                                       !.yielded = Append(r.yielded, file_path)]
              IN
              IF out = "ValueError"
              THEN /\ proc' = [proc EXCEPT ![p] = Raise(counted, "ValueError")]
                   /\ UNCHANGED <<remote, hist>>
              ELSE /\ remote' = Observe(remote_path, out)
                   /\ hist' = [hist EXCEPT
                         !.visited = @ \cup {[p |-> p, run |-> run, pi |-> r.pi, f |-> file_path]},
                         !.checked = @ \cup {[run |-> run, pi |-> r.pi, f |-> file_path, out |-> out]}]
                   /\ proc' = [proc EXCEPT ![p] =
                         IF VerifyDecision(out) = "remove"
                         THEN [counted EXCEPT !.pc = "remove"]
                         ELSE [counted EXCEPT !.pending = Tail(r.pending)]]
    /\ UNCHANGED <<dirs, files, pairs, remoteEnv, run, envSteps,
                   lockHolder, lockContent, runLog, mode, cl>>

\* the unlink of remove_file
UnlinkNothing(path) == files
Unlink(path) == files \ {path}

\* if exists: remove_file(file_path), counted, or its error logged
VerifyRemove(p) ==
    LET r == proc[p]
        file_path == Head(r.pending)
    IN
    /\ mode = "verify"
    /\ r.pc = "remove"
    /\ IF remove_file(file_path) = ""
       THEN /\ files' = Unlink(file_path)
            /\ proc' = [proc EXCEPT ![p] =
                          [r EXCEPT !.pc = "walk", !.pending = Tail(r.pending),
                                    !.removed = r.removed + 1,
                                    !.totRemoved = r.totRemoved + 1]]
            /\ hist' = [hist EXCEPT !.deleted = @ \cup
                          {[p |-> p, run |-> run, pi |-> r.pi, f |-> file_path]}]
       ELSE /\ proc' = [proc EXCEPT ![p] =
                          [r EXCEPT !.pc = "walk", !.pending = Tail(r.pending)]]
            /\ UNCHANGED <<files, hist>>
    /\ UNCHANGED <<dirs, pairs, remoteEnv, remote, run, envSteps,
                   lockHolder, lockContent, runLog, mode, cl>>

\* the script is started again after it has ended
Rerun(p) ==
    /\ mode = "verify"
    /\ run = 1
    /\ proc[p].pc = "exited"
    /\ run' = 2
    /\ proc' = [proc EXCEPT ![p] = IdleProc]
    /\ hist' = [hist EXCEPT !.retained = files]
    /\ UNCHANGED <<dirs, files, pairs, remoteEnv, remote, envSteps,
                   lockHolder, lockContent, runLog, mode, cl>>

\* --------------------------------------------------------------- environment
\* Another program changes an entry the run has listed and not yet handled.
SeqRange(s) == {s[i] : i \in 1..Len(s)}
Listed(p) == {fr.d : fr \in {x \in SeqRange(proc[p].pstack) : x.k # "scan"}}

EnvRemoveFile ==
    /\ envSteps < MaxEnv
    /\ \E p \in Procs : \E f \in SeqRange(proc[p].pending) \cap files :
          files' = files \ {f}
    /\ envSteps' = envSteps + 1
    /\ UNCHANGED <<dirs, pairs, remoteEnv, remote, proc, run,
                   lockHolder, lockContent, runLog, hist, mode, cl>>

EnvRmdir ==
    /\ envSteps < MaxEnv
    /\ \E p \in Procs : \E d \in Listed(p) \cap dirs :
          /\ Len(d) > 1
          /\ ChildrenIn(d, dirs \cup files) = {}
          /\ dirs' = dirs \ {d}
    /\ envSteps' = envSteps + 1
    /\ UNCHANGED <<files, pairs, remoteEnv, remote, proc, run,
                   lockHolder, lockContent, runLog, hist, mode, cl>>

EnvCreateFile ==
    /\ envSteps < MaxEnv
    /\ \E p \in Procs : \E d \in Listed(p) \cap dirs : \E n \in Names :
          /\ Len(d) < MaxDepth
          /\ (d \o <<n>>) \notin dirs \cup files
          /\ files' = files \cup {d \o <<n>>}
    /\ envSteps' = envSteps + 1
    /\ UNCHANGED <<dirs, pairs, remoteEnv, remote, proc, run,
                   lockHolder, lockContent, runLog, hist, mode, cl>>

\* ------------------------------------------------------------ specifications
NoCall ==
    [variant |-> "", local_ok |-> FALSE, remote_path |-> <<>>, reauthenticate |-> FALSE,
     token |-> FALSE, pc |-> "off", net |-> <<>>, result |-> ""]

InitWorld ==
    /\ \E t \in Trees : dirs = t.d /\ files = t.f
    /\ pairs \in PairLists
    /\ remoteEnv \in RemoteEnvValues
    /\ remote = <<>>
    /\ proc = [p \in Procs |-> IdleProc]
    /\ run = 1
    /\ envSteps = 0
    /\ lockHolder = 0
    /\ lockContent = 0
    /\ runLog = {}
    /\ hist = NoHist
    /\ cl = NoCall

\* remove_local.py run twice on a local tree nothing else modifies
Init ==
    /\ mode = "verify"
    /\ InitWorld
    /\ NoDuplicates(pairs)      \* load_directory_pairs drops repeated pairs

VerifyStep(p) ==
    \/ VStart(p)
    \/ NextPair(p)
    \/ WalkNext(p)
    \/ VerifyFile(p)
    \/ VerifyRemove(p)
    \/ PruneStart(p)
    \/ PruneStep(p)
    \/ PruneReturn(p)

Next ==
    \/ VerifyStep(1)
    \/ Rerun(1)

Spec == Init /\ [][Next]_vars

\* remove_local.py run once while another program modifies the local tree
NextRace ==
    \/ VerifyStep(1)
    \/ EnvRemoveFile
    \/ EnvRmdir
    \/ EnvCreateFile

SpecRace == Init /\ [][NextRace]_vars

\* remove_local.py run twice on one source directory whose tree has two
\* entries more, so that two subdirectories of one directory can both hold a
\* file beside a directory that holds two
WalkTrees ==
    {t \in TreesUpTo(MaxNodes + 2) :
        /\ Canon(t)
        /\ <<1>> \in t.d
        /\ \A q \in t.d \cup t.f : IsPrefix(<<1>>, q)}

InitWalk ==
    /\ mode = "verify"
    /\ \E t \in WalkTrees : dirs = t.d /\ files = t.f
    /\ pairs = <<[loc |-> <<1>>, rem |-> <<"/">>]>>
    /\ remoteEnv = [set |-> FALSE, val |-> <<>>]
    /\ remote = <<>>
    /\ proc = [p \in Procs |-> IdleProc]
    /\ run = 1
    /\ envSteps = 0
    /\ lockHolder = 0
    /\ lockContent = 0
    /\ runLog = {}
    /\ hist = NoHist
    /\ cl = NoCall

SpecWalk == InitWalk /\ [][Next]_vars

\* remove_local.py run once over two pairs that share one source directory,
\* while another program modifies the local tree
InitCount ==
    /\ mode = "verify"
    /\ \E t \in Trees : /\ dirs = t.d /\ files = t.f
                        /\ \A q \in t.d \cup t.f : IsPrefix(<<1>>, q)
    /\ pairs = <<[loc |-> <<1>>, rem |-> <<"/">>], [loc |-> <<1>>, rem |-> <<"r", "/">>]>>
    /\ remoteEnv = [set |-> FALSE, val |-> <<>>]
    /\ remote = <<>>
    /\ proc = [p \in Procs |-> IdleProc]
    /\ run = 1
    /\ envSteps = 0
    /\ lockHolder = 0
    /\ lockContent = 0
    /\ runLog = {}
    /\ hist = NoHist
    /\ cl = NoCall

SpecCount == InitCount /\ [][NextRace]_vars

\* ----------------------------------------------------------- run.py: main
\* the log directory, the truncation of logs/run.log, the touch of error.log
UStart(p) ==
    /\ mode = "upload"
    /\ proc[p].pc = "idle"
    /\ runLog' = {}
    /\ proc' = [proc EXCEPT ![p] = [@ EXCEPT !.pc = "lock_open", !.late = lockHolder # 0]]
    /\ UNCHANGED <<dirs, files, pairs, remoteEnv, remote, run, envSteps,
                   lockHolder, lockContent, hist, mode, cl>>

\* _acquire_lock: LOCK_FILE_PATH.open("w")
LockOpen(p) ==
    /\ proc[p].pc = "lock_open"
    /\ lockContent' = 0
    /\ proc' = [proc EXCEPT ![p].pc = "flock"]
    /\ UNCHANGED <<dirs, files, pairs, remoteEnv, remote, run, envSteps,
                   lockHolder, runLog, hist, mode, cl>>

\* flock(lock_file, LOCK_EX | LOCK_NB) succeeds
FlockAlwaysGranted(holder) == TRUE
FlockGranted(holder) == holder = 0

\* _acquire_lock: the flock, or the message on the terminal and sys.exit(1);
\* main's finally clause finds lock_file unset
Flock(p) ==
    /\ proc[p].pc = "flock"
    /\ IF FlockGranted(lockHolder)
       THEN /\ lockHolder' = p
            /\ proc' = [proc EXCEPT ![p].pc = "write_pid"]
       ELSE /\ proc' = [proc EXCEPT ![p] = [@ EXCEPT !.pc = "exited", !.exit = 1, !.exc = "locked"]]
            /\ UNCHANGED lockHolder
    /\ UNCHANGED <<dirs, files, pairs, remoteEnv, remote, run, envSteps,
                   lockContent, runLog, hist, mode, cl>>

\* _acquire_lock: lock_file.write(str(os.getpid())); lock_file.flush()
WritePid(p) ==
    /\ proc[p].pc = "write_pid"
    /\ lockContent' = p
    /\ proc' = [proc EXCEPT ![p].pc = "cfg"]
    /\ UNCHANGED <<dirs, files, pairs, remoteEnv, remote, run, envSteps,
                   lockHolder, runLog, hist, mode, cl>>

\* _run_upload up to the per-pair loop: RcloneClient(), load_directory_pairs()
UConfig(p) ==
    LET r == proc[p] IN
    /\ r.pc = "cfg"
    /\ IF ~ClientConstructs
       THEN /\ proc' = [proc EXCEPT ![p] =       \* except ValueError: print
                          [r EXCEPT !.pc = "finally", !.exit = 0, !.exc = "ValueError"]]
            /\ runLog' = Printed(p)
       ELSE IF pairs = <<>>
       THEN /\ proc' = [proc EXCEPT ![p] =
                          [r EXCEPT !.pc = "finally", !.exit = 0, !.exc = "no pairs"]]
            /\ runLog' = Printed(p)
       ELSE /\ proc' = [proc EXCEPT ![p] = [r EXCEPT !.pc = "pair", !.pi = 1]]
            /\ UNCHANGED runLog
    /\ UNCHANGED <<dirs, files, pairs, remoteEnv, remote, run, envSteps,
                   lockHolder, lockContent, hist, mode, cl>>

\* RcloneClient.upload_file: the exception raised ("" for none) and the
\* external tool invocations made
RcloneUpload(is_file, remote_path, returncode) ==
    IF ~is_file THEN [exc |-> "FileNotFoundError", net |-> <<>>]
    ELSE [exc |-> IF returncode # 0 THEN "RuntimeError" ELSE "",
          net |-> <<"rclone copyto">>]

\* what the loop body does when upload_file has returned or raised
UploadDecisionIgnoringError(exc) == "remove"
UploadDecision(exc) == IF exc # "" THEN "raise" ELSE "remove"

\* the loop body up to the return of upload_file
UploadFile(p) ==
    LET r == proc[p]
        file_path == Head(r.pending)
        relative_remote == relative_posix(file_path, Base(p))
        remote_path == RemotePathOf(RemoteRoot(p), relative_remote.val)
    IN
    /\ mode = "upload"
    /\ r.pc = "walk"
    /\ r.pending # <<>>
    /\ IF relative_remote.exc # ""
       THEN /\ proc' = [proc EXCEPT ![p] =
                          Raise(r, "relative_posix:" \o relative_remote.exc)]
            /\ UNCHANGED hist
       ELSE \E returncode \in {0, 1} :
              LET res == RcloneUpload(file_path \in files, remote_path, returncode) IN
              /\ hist' = [hist EXCEPT
                    !.visited = @ \cup {[p |-> p, run |-> run, pi |-> r.pi, f |-> file_path]},
                    !.uploaded = @ \cup {[p |-> p, pi |-> r.pi, f |-> file_path,
                                          ok |-> res.exc = ""]}]
              /\ proc' = [proc EXCEPT ![p] =
                    IF UploadDecision(res.exc) = "raise"
                    THEN Raise([r EXCEPT !.yielded = Append(r.yielded, file_path)],
                               "upload_file:" \o res.exc)
                    ELSE [r EXCEPT !.pc = "remove", !.fileCount = r.fileCount + 1,
                                   !.yielded = Append(r.yielded, file_path)]]
    /\ runLog' = Printed(p)
    /\ UNCHANGED <<dirs, files, pairs, remoteEnv, remote, run, envSteps,
                   lockHolder, lockContent, mode, cl>>

\* remove_file(file_path) after the upload, or its error logged
UploadRemove(p) ==
    LET r == proc[p]
        file_path == Head(r.pending)
    IN
    /\ mode = "upload"
    /\ r.pc = "remove"
    /\ IF remove_file(file_path) = ""
       THEN /\ files' = Unlink(file_path)
            /\ hist' = [hist EXCEPT !.deleted = @ \cup
                          {[p |-> p, run |-> run, pi |-> r.pi, f |-> file_path]}]
       ELSE UNCHANGED <<files, hist>>
    /\ proc' = [proc EXCEPT ![p] = [r EXCEPT !.pc = "walk", !.pending = Tail(r.pending)]]
    /\ runLog' = Printed(p)
    /\ UNCHANGED <<dirs, pairs, remoteEnv, remote, run, envSteps,
                   lockHolder, lockContent, mode, cl>>

\* main's finally clause: lock_file.close() gives the lock back; the process ends
Finally(p) ==
    /\ proc[p].pc = "finally"
    /\ lockHolder' = IF lockHolder = p THEN 0 ELSE lockHolder
    /\ proc' = [proc EXCEPT ![p].pc = "exited"]
    /\ UNCHANGED <<dirs, files, pairs, remoteEnv, remote, run, envSteps,
                   lockContent, runLog, hist, mode, cl>>

\* run.py started by two processes on a local tree nothing else modifies
InitUpload ==
    /\ mode = "upload"
    /\ InitWorld

UploadStep(p) ==
    \/ UStart(p)
    \/ LockOpen(p)
    \/ Flock(p)
    \/ WritePid(p)
    \/ UConfig(p)
    \/ NextPair(p)
    \/ WalkNext(p)
    \/ UploadFile(p)
    \/ UploadRemove(p)
    \/ PruneStart(p)
    \/ PruneStep(p)
    \/ PruneReturn(p)
    \/ Finally(p)

NextUpload == \E p \in Procs : UploadStep(p)

SpecUpload == InitUpload /\ [][NextUpload]_vars

\* An exception that no handler of _run_upload names (KeyboardInterrupt, a
\* PermissionError of unlink, ...) is raised where the instance stands, after its
\* flock: it leaves main through the finally clause, and the interpreter prints
\* the traceback once the redirection to the log is over and exits 1.
Unexpected(p) ==
    /\ mode = "upload"
    /\ proc[p].pc \in {"write_pid", "cfg", "pair", "iter", "first", "walk", "remove",
                       "prune", "pwalk"}
    /\ proc' = [proc EXCEPT ![p] = [@ EXCEPT !.pc = "finally", !.exit = 1,
                                             !.exc = "unexpected"]]
    /\ UNCHANGED <<dirs, files, pairs, remoteEnv, remote, run, envSteps,
                   lockHolder, lockContent, runLog, hist, mode, cl>>

\* run.py started by two processes in one working directory, for one directory
\* pair, where an instance may be ended by an exception nothing handles
InitLock ==
    /\ mode = "upload"
    /\ \E t \in Trees : /\ dirs = t.d /\ files = t.f
                        /\ \A q \in t.d \cup t.f : IsPrefix(<<1>>, q)
    /\ pairs = <<[loc |-> <<1>>, rem |-> <<"/">>]>>
    /\ remoteEnv = [set |-> FALSE, val |-> <<>>]
    /\ remote = <<>>
    /\ proc = [p \in Procs |-> IdleProc]
    /\ run = 1
    /\ envSteps = 0
    /\ lockHolder = 0
    /\ lockContent = 0
    /\ runLog = {}
    /\ hist = NoHist
    /\ cl = NoCall

NextLock ==
    \/ \E p \in Procs : UploadStep(p)
    \/ \E p \in Procs : Unexpected(p)

SpecLock == InitLock /\ [][NextLock]_vars

\* ------------------------------------------------- one upload_file call
Chars == {"/", "\\", "a"}
Strings == UNION {[1..n -> Chars] : n \in 0..MaxLen}
EndsWithSep(s) == s # <<>> /\ s[Len(s)] = "/"

\* OpenlistClient.upload_file: the exception raised ("" for none) and the
\* HTTP requests made; auth_ok and put are the server's answers
OpenlistUpload(is_file, remote_path, reauthenticate, token, auth_ok, put) ==
    LET login == reauthenticate \/ ~token
        sent == IF login THEN <<"POST /api/auth/login">> ELSE <<>>
    IN
    IF ~is_file THEN [exc |-> "FileNotFoundError", net |-> <<>>]
    ELSE IF login /\ ~auth_ok THEN [exc |-> "RuntimeError", net |-> sent]
    ELSE IF EndsWithSep(_normalize_remote_path(remote_path))
    THEN [exc |-> "ValueError", net |-> sent]
    ELSE [exc |-> IF put = "ok" THEN "" ELSE "RuntimeError",
          net |-> sent \o <<"PUT /api/fs/put">>]

OpenlistUploadFile ==
    /\ cl.pc = "ready"
    /\ cl.variant = "openlist"
    /\ \E auth_ok \in BOOLEAN, put \in {"ok", "request error", "not json", "code"} :
          LET res == OpenlistUpload(cl.local_ok, cl.remote_path, cl.reauthenticate,
                                    cl.token, auth_ok, put)
          IN cl' = [cl EXCEPT !.pc = "done", !.result = res.exc, !.net = res.net,
                              !.token = cl.token \/ (res.net # <<>> /\ auth_ok)]
    /\ UNCHANGED <<dirs, files, pairs, remoteEnv, remote, proc, run, envSteps,
                   lockHolder, lockContent, runLog, hist, mode>>

RcloneUploadFile ==
    /\ cl.pc = "ready"
    /\ cl.variant = "rclone"
    /\ \E returncode \in {0, 1} :
          LET res == RcloneUpload(cl.local_ok, cl.remote_path, returncode)
          IN cl' = [cl EXCEPT !.pc = "done", !.result = res.exc, !.net = res.net]
    /\ UNCHANGED <<dirs, files, pairs, remoteEnv, remote, proc, run, envSteps,
                   lockHolder, lockContent, runLog, hist, mode>>

InitClient ==
    /\ mode = "client"
    /\ dirs = {}
    /\ files = {}
    /\ pairs = <<>>
    /\ remoteEnv = [set |-> FALSE, val |-> <<>>]
    /\ remote = <<>>
    /\ proc = [p \in Procs |-> IdleProc]
    /\ run = 1
    /\ envSteps = 0
    /\ lockHolder = 0
    /\ lockContent = 0
    /\ runLog = {}
    /\ hist = NoHist
    /\ cl \in [variant : {"openlist", "rclone"}, local_ok : BOOLEAN,
               remote_path : Strings, reauthenticate : BOOLEAN, token : BOOLEAN,
               pc : {"ready"}, net : {<<>>}, result : {""}]

NextClient ==
    \/ OpenlistUploadFile
    \/ RcloneUploadFile

SpecClient == InitClient /\ [][NextClient]_vars

\* ------------------------------------------------ one load_directory_pairs call
\* str.split(sep) for a one-character separator
RECURSIVE SplitOn(_, _)
SplitOn(s, sep) ==
    IF \A i \in 1..Len(s) : s[i] # sep THEN <<s>>
    ELSE LET i == CHOOSE j \in 1..Len(s) : s[j] = sep /\ \A k \in 1..(j - 1) : s[k] # sep
         IN <<SubSeq(s, 1, i - 1)>> \o SplitOn(SubSeq(s, i + 1, Len(s)), sep)

\* next_parts.extend(part.split(separator)) for every part
RECURSIVE SplitParts(_, _)
SplitParts(parts, separator) ==
    IF parts = <<>> THEN <<>>
    ELSE SplitOn(Head(parts), separator) \o SplitParts(Tail(parts), separator)

NonEmpty(part) == part # <<>>

\* the values the model draws hold no whitespace but the space and the newline,
\* and no newline is left once the parts are split on it
_split_env_values(raw_value) ==
    LET parts == SplitParts(SplitParts(SplitParts(<<raw_value>>, ";"), ","), "\n")
    IN SelectSeq([i \in 1..Len(parts) |-> Strip(parts[i])], NonEmpty)

\* os.getenv(name) is neither None nor ""
Truthy(v) == v.set /\ v.val # <<>>

\* the first occurrence of every element, in order (the seen sets)
RECURSIVE DropSeen(_, _)
DropSeen(s, seen) ==
    IF s = <<>> THEN <<>>
    ELSE IF Head(s) \in seen THEN DropSeen(Tail(s), seen)
    ELSE <<Head(s)>> \o DropSeen(Tail(s), seen \cup {Head(s)})

load_source_dirs(environ) ==
    LET multiple == IF Truthy(environ.LOCAL_SOURCE_DIRS)
                    THEN _split_env_values(environ.LOCAL_SOURCE_DIRS.val) ELSE <<>>
        single == IF Truthy(environ.LOCAL_SOURCE_DIR)
                  THEN <<Strip(environ.LOCAL_SOURCE_DIR.val)>> ELSE <<>>
    IN DropSeen(multiple \o single, {})

\* the index of the first "=>" of an entry, 0 when it has none
FindArrow(entry) ==
    LET at == {i \in 1..(Len(entry) - 1) : entry[i] = "=" /\ entry[i + 1] = ">"}
    IN IF at = {} THEN 0 ELSE CHOOSE i \in at : \A j \in at : i <= j

\* one turn of the loop over the mapping entries: the pair appended, if any
MappingEntry(entry) ==
    LET i == FindArrow(entry)
        local_dir == Strip(SubSeq(entry, 1, i - 1))
        remote_root == Strip(SubSeq(entry, i + 2, Len(entry)))
    IN IF i = 0 THEN <<>>
       ELSE IF local_dir = <<>> \/ remote_root = <<>> THEN <<>>
       ELSE <<[loc |-> local_dir, rem |-> remote_root]>>

RECURSIVE MappingEntries(_)
MappingEntries(entries) ==
    IF entries = <<>> THEN <<>>
    ELSE MappingEntry(Head(entries)) \o MappingEntries(Tail(entries))

\* load_directory_pairs; seen_pairs: remove_local.py skips a pair it has appended
load_directory_pairs(environ, seen_pairs) ==
    LET mapped == IF Truthy(environ.LOCAL_REMOTE_MAPS)
                  THEN MappingEntries(_split_env_values(environ.LOCAL_REMOTE_MAPS.val))
                  ELSE <<>>
        pairs_ == IF seen_pairs THEN DropSeen(mapped, {}) ELSE mapped
        fallback_remote == IF Truthy(environ.RCLONE_REMOTE_ROOT)
                           THEN environ.RCLONE_REMOTE_ROOT
                           ELSE environ.OPENLIST_REMOTE_ROOT
        sources == load_source_dirs(environ)
    IN IF pairs_ # <<>> THEN pairs_
       ELSE IF Truthy(fallback_remote) /\ sources # <<>>
       THEN [i \in 1..Len(sources) |-> [loc |-> sources[i], rem |-> fallback_remote.val]]
       ELSE <<>>

\* Environments are written from what they are meant to configure: the texts of
\* mapping entries with the pair each one stands for (none for an invalid one),
\* and the texts of source directories with the directory each one names.
Unset == [set |-> FALSE, val |-> <<>>]
Value(s) == [set |-> TRUE, val |-> s]
Separators == {";", ",", "\n"}
EntryKinds ==
    {[text |-> <<"a", "=", ">", "r">>, pair |-> <<[loc |-> <<"a">>, rem |-> <<"r">>]>>],
     [text |-> <<" ", "a", " ", "=", ">", " ", "o", " ">>,
      pair |-> <<[loc |-> <<"a">>, rem |-> <<"o">>]>>],
     [text |-> <<"b">>, pair |-> <<>>],
     [text |-> <<"=", ">", "r">>, pair |-> <<>>],
     [text |-> <<"a", "=", ">">>, pair |-> <<>>],
     [text |-> <<>>, pair |-> <<>>]}
DirKinds ==
    {[text |-> <<"a">>, dir |-> <<<<"a">>>>],
     [text |-> <<" ", "b", " ">>, dir |-> <<<<"b">>>>],
     [text |-> <<" ">>, dir |-> <<>>]}
ListsOf(S) == UNION {[1..n -> S] : n \in 1..MaxEntries}

\* the texts joined by separators: seps[i] stands between texts i and i + 1
RECURSIVE Join(_, _)
Join(texts, seps) ==
    IF Len(texts) = 1 THEN Head(texts)
    ELSE Head(texts) \o <<Head(seps)>> \o Join(Tail(texts), Tail(seps))
Texts(kinds) == [i \in 1..Len(kinds) |-> kinds[i].text]

\* what a list of kinds stands for
RECURSIVE Meant(_, _)
Meant(kinds, field) ==
    IF kinds = <<>> THEN <<>>
    ELSE Head(kinds)[field] \o Meant(Tail(kinds), field)

ConfigCalls ==
    {[variant |-> v, pc |-> "ready", result |-> <<>>,
      maps |-> m, dirs |-> ds, dir |-> d,
      environ |-> [LOCAL_REMOTE_MAPS |-> IF m = <<>> THEN Unset ELSE Value(Join(Texts(m), sm)),
                   LOCAL_SOURCE_DIRS |-> IF ds = <<>> THEN Unset
                                         ELSE Value(Join(Texts(ds), [i \in 1..(Len(ds) - 1) |-> ","])),
                   LOCAL_SOURCE_DIR |-> IF d = <<>> THEN Unset ELSE Value(d[1].text),
                   RCLONE_REMOTE_ROOT |-> rr,
                   OPENLIST_REMOTE_ROOT |-> orr]] :
        v \in {"run.py", "remove_local.py"},
        m \in {<<>>} \cup ListsOf(EntryKinds),
        sm \in [1..(MaxEntries - 1) -> Separators],
        ds \in {<<>>} \cup ListsOf({k \in DirKinds : k.dir # <<>>}),
        d \in {<<>>} \cup {<<k>> : k \in DirKinds},
        rr \in {Unset, Value(<<>>), Value(<<"r">>)},
        orr \in {Unset, Value(<<"o">>)}}

RunLoadDirectoryPairs ==
    /\ cl.pc = "ready"
    /\ cl.variant = "run.py"
    /\ cl' = [cl EXCEPT !.pc = "done", !.result = load_directory_pairs(cl.environ, FALSE)]
    /\ UNCHANGED <<dirs, files, pairs, remoteEnv, remote, proc, run, envSteps,
                   lockHolder, lockContent, runLog, hist, mode>>

RemoveLocalLoadDirectoryPairs ==
    /\ cl.pc = "ready"
    /\ cl.variant = "remove_local.py"
    /\ cl' = [cl EXCEPT !.pc = "done", !.result = load_directory_pairs(cl.environ, TRUE)]
    /\ UNCHANGED <<dirs, files, pairs, remoteEnv, remote, proc, run, envSteps,
                   lockHolder, lockContent, runLog, hist, mode>>

InitConfig ==
    /\ mode = "config"
    /\ dirs = {}
    /\ files = {}
    /\ pairs = <<>>
    /\ remoteEnv = [set |-> FALSE, val |-> <<>>]
    /\ remote = <<>>
    /\ proc = [p \in Procs |-> IdleProc]
    /\ run = 1
    /\ envSteps = 0
    /\ lockHolder = 0
    /\ lockContent = 0
    /\ runLog = {}
    /\ hist = NoHist
    /\ cl \in ConfigCalls

NextConfig ==
    \/ RunLoadDirectoryPairs
    \/ RemoveLocalLoadDirectoryPairs

SpecConfig == InitConfig /\ [][NextConfig]_vars

\* -------------------------------------------------------------- properties
ConfirmedInRun(f, n) ==
    \E c \in hist.checked : c.run = n /\ c.f = f /\ c.out = "true"

\* C1, as stated: at the end of a verify-and-delete run, every file whose check
\* raised or returned false at some visit of the run still exists locally.
C1_KeptWhenNotConfirmed ==
    proc[1].pc = "exited" =>
        \A c \in hist.checked : (c.run = run /\ c.out # "true") => c.f \in files

\* C1, amended: a file is deleted only at a visit whose check returned true; a
\* visit whose check raised or returned false deletes nothing; and at the end of
\* the run every visited file for which no check of the run returned true
\* still exists locally.
C1_DeletedOnlyWhenConfirmed ==
    /\ \A d \in hist.deleted :
          [run |-> d.run, pi |-> d.pi, f |-> d.f, out |-> "true"] \in hist.checked
    /\ \A c \in hist.checked :
          c.out # "true" =>
              [p |-> 1, run |-> c.run, pi |-> c.pi, f |-> c.f] \notin hist.deleted
    /\ proc[1].pc = "exited" =>
          \A c \in hist.checked :
              (c.run = run /\ ~ConfirmedInRun(c.f, run)) => c.f \in files

C1_Witness ==
    /\ proc[1].pc = "exited"
    /\ \E c \in hist.checked : c.run = run /\ c.out = "raise" /\ c.f \in files
    /\ \E c \in hist.checked : c.run = run /\ c.out = "false" /\ c.f \in files
    /\ \E d \in hist.deleted : d.run = run

\* C2: in upload mode a file is deleted only after upload_file returned for that
\* file, under the same pair, without raising; a file whose upload raised is not
\* deleted by that run.
C2_DeleteAfterUpload ==
    /\ \A d \in hist.deleted :
          [p |-> d.p, pi |-> d.pi, f |-> d.f, ok |-> TRUE] \in hist.uploaded
    /\ \A u \in hist.uploaded :
          ~u.ok => \A d \in hist.deleted : ~(d.p = u.p /\ d.f = u.f)

C2_Witness ==
    \E u \in hist.uploaded :
        /\ ~u.ok
        /\ u.f \in files
        /\ \E d \in hist.deleted : d.p = u.p
        /\ proc[u.p].pc = "exited"

\* C3: after upload_file failed for a file, the run keeps the file and goes on:
\* it prunes the pair of that file and runs the per-pair loop to its end.
C3_ContinuesAfterUploadFailed ==
    \A u \in hist.uploaded :
        (~u.ok /\ proc[u.p].pc = "exited") =>
            /\ \A d \in hist.deleted : ~(d.p = u.p /\ d.f = u.f)
            /\ \E pr \in hist.prunes : pr.p = u.p /\ pr.pi = u.pi
            /\ proc[u.p].pi > Len(pairs)

\* C4: a listed file that has vanished when it is processed (FileNotFoundError of
\* relative_posix or remove_file) never ends the run: no process is terminated
\* by that error.
C4_FileErrorStaysInLoop ==
    \A p \in Procs : proc[p].exc # "relative_posix:FileNotFoundError"

\* C5: while another instance holds the lock, no step of an instance started
\* meanwhile changes logs/run.log, run.lock or the local tree.
C5_LateInstanceTouchesNothing ==
    [][\A p \in Procs :
          (proc'[p] # proc[p] /\ proc'[p].late /\ lockHolder \notin {0, p}) =>
              /\ runLog' = runLog
              /\ lockContent' = lockContent
              /\ files' = files
              /\ dirs' = dirs]_vars

\* C6: a run whose configuration fails (the client cannot be constructed, or no
\* directory pair resolves) ends with a non-zero status and has visited no file.
C6_ConfigFailureExitsNonZero ==
    \A p \in Procs :
        (proc[p].pc = "exited" /\ proc[p].exc \in {"ValueError", "no pairs"}) =>
            /\ proc[p].exit # 0
            /\ \A v \in hist.visited : v.p # p

\* C7: the second of two successive verify-and-delete runs deletes nothing (its
\* removed count stays 0) and visits only files the first run retained.
C7_SecondRunDeletesNothing ==
    run = 2 =>
        /\ proc[1].totRemoved = 0
        /\ \A d \in hist.deleted : d.run # 2
        /\ \A v \in hist.visited : v.run = 2 => v.f \in hist.retained

C7_Witness ==
    /\ run = 2
    /\ proc[1].pc = "exited"
    /\ \E d \in hist.deleted : d.run = 1
    /\ \E c \in hist.checked : c.run = 1 /\ c.out = "raise"
    /\ \E v \in hist.visited : v.run = 2

\* C8: remove_empty_directories never removes the root, never removes a
\* directory that directly contains a file, and does not fail when a directory
\* it has listed becomes non-empty or disappears before it is handled.
C8_PruneToleratesRaces ==
    /\ \A x \in hist.rmdirs : x.d # x.base /\ ~x.hadFile
    /\ \A p \in Procs : proc[p].exc # "prune:FileNotFoundError"

FileLess(d, F) == \A f \in F : ~IsPrefix(d, f)

\* C9: with nothing else modifying the tree, one remove_empty_directories call
\* removes exactly the directories below the root whose subtree holds no file,
\* keeps the root and every file, and returns the number it removed.
C9_PruneComplete ==
    \A pr \in hist.prunes :
        pr.quiet =>
            LET gone == {d \in pr.pred : /\ IsPrefix(pr.base, d)
                                         /\ d # pr.base
                                         /\ FileLess(d, pr.pref)}
            IN /\ pr.postd = pr.pred \ gone
               /\ pr.base \in pr.postd
               /\ pr.postf = pr.pref
               /\ pr.ret = Cardinality(gone)

C9_Witness ==
    \E pr \in hist.prunes :
        /\ pr.ret = 2
        /\ \E d \in pr.pred \ pr.postd : Parent(d) \in pr.pred \ pr.postd
        /\ \E x \in hist.deleted : x.pi = pr.pi /\ x.run = pr.run /\ Parent(x.f) \notin pr.postd

\* C10: upload_file answers a remote_path that ends in a separator after
\* normalization with ValueError, having made no request and run no tool.
C10_InvalidPathRejectedFirst ==
    (cl.pc = "done" /\ cl.local_ok /\ EndsWithSep(_normalize_remote_path(cl.remote_path))) =>
        /\ cl.result = "ValueError"
        /\ cl.net = <<>>

\* the body of the per-pair loop is running, or was left by an exception
InPair(r) == r.pc # "pair" /\ r.pi \in 1..Len(pairs)
VisitsOf(S, n, i) == {x \in S : x.p = 1 /\ x.run = n /\ x.pi = i}
RECURSIVE Sum(_, _)
Sum(f, S) ==
    IF S = {} THEN 0
    ELSE LET x == CHOOSE y \in S : TRUE IN f[x] + Sum(f, S \ {x})

\* C11: in verify-and-delete mode the processed count of the pair at hand is the
\* number of files visited under it and its removed count the number of files
\* deleted under it (removed <= processed); a file whose check raised is counted
\* as processed and not as removed; the grand totals are the counts over the
\* whole run and the sums of the per-pair counts of files processed, files
\* removed and directories pruned.
C11_CountersMatchVisits ==
    LET r == proc[1]
        done == {pr \in hist.prunes : pr.p = 1 /\ pr.run = run}
        cur == [processed |-> IF InPair(r) THEN r.processed ELSE 0,
                removed |-> IF InPair(r) THEN r.removed ELSE 0]
    IN
    /\ InPair(r) =>
          /\ r.processed = Cardinality(VisitsOf(hist.visited, run, r.pi))
          /\ r.removed = Cardinality(VisitsOf(hist.deleted, run, r.pi))
          /\ r.removed <= r.processed
    /\ \A pr \in done :
          /\ pr.processed = Cardinality(VisitsOf(hist.visited, run, pr.pi))
          /\ pr.removed = Cardinality(VisitsOf(hist.deleted, run, pr.pi))
    /\ \A c \in hist.checked :
          c.out = "raise" =>
              /\ [p |-> 1, run |-> c.run, pi |-> c.pi, f |-> c.f] \in hist.visited
              /\ [p |-> 1, run |-> c.run, pi |-> c.pi, f |-> c.f] \notin hist.deleted
    /\ r.totProcessed = Cardinality({v \in hist.visited : v.run = run})
    /\ r.totRemoved = Cardinality({d \in hist.deleted : d.run = run})
    /\ r.totProcessed = Sum([pr \in done |-> pr.processed], done) + cur.processed
    /\ r.totRemoved = Sum([pr \in done |-> pr.removed], done) + cur.removed
    /\ r.totCleaned = Sum([pr \in done |-> pr.ret], done)

\* the run has ended with its summary after two pairs; a check raised, a file was
\* deleted, a confirmed file had vanished before its removal, directories were pruned
C11_Witness ==
    /\ proc[1].pc = "exited"
    /\ proc[1].exit = 0
    /\ Cardinality({pr \in hist.prunes : pr.run = run}) = 2
    /\ \E c \in hist.checked : c.out = "raise"
    /\ proc[1].totRemoved > 0
    /\ proc[1].totRemoved < Cardinality({c \in hist.checked : c.out = "true"})
    /\ proc[1].totCleaned > 0

\* C12: when the mapping list holds a valid entry, load_directory_pairs returns
\* exactly the pairs of its valid entries in configured order, whatever the source
\* directories and the fallback remote root are; otherwise it returns every
\* configured source directory paired with the fallback remote root, and the
\* empty list when no fallback remote root is configured.
C12_MappingsBeforeFallback ==
    LET valid == Meant(cl.maps, "pair")
        configured == DropSeen(Meant(cl.dirs, "dir") \o Meant(cl.dir, "dir"), {})
        fallback == IF Truthy(cl.environ.RCLONE_REMOTE_ROOT)
                    THEN cl.environ.RCLONE_REMOTE_ROOT
                    ELSE cl.environ.OPENLIST_REMOTE_ROOT
    IN (mode = "config" /\ cl.pc = "done") =>
          cl.result = IF valid # <<>> THEN valid
                      ELSE IF Truthy(fallback)
                      THEN [i \in 1..Len(configured) |->
                               [loc |-> configured[i], rem |-> fallback.val]]
                      ELSE <<>>

\* the first place where two files' paths differ
Fork(f, g) ==
    CHOOSE k \in 1..Len(f) :
        k <= Len(g) /\ f[k] # g[k] /\ \A m \in 1..(k - 1) : f[m] = g[m]
Under(base, S) == {q \in S : IsPrefix(base, q)}
\* no file twice; two files of one directory in ascending order of their names;
\* files below two subdirectories of one directory in ascending order of the
\* subdirectories' names
InNameOrder(seq) ==
    \A i, j \in 1..Len(seq) :
        i # j =>
            /\ seq[i] # seq[j]
            /\ LET f == seq[i]
                   g == seq[j]
                   k == Fork(f, g)
               IN (/\ (k = Len(f)) = (k = Len(g))
                   /\ f[k] < g[k]) => i < j

\* C13: the files the orchestrator has taken from iter_files_sorted are, at every
\* point, in ascending name order within each directory and by subdirectory,
\* none twice; a finished traversal has yielded every file of the tree; and two
\* traversals of the same tree yield the same sequence.
C13_SortedOnceAndRepeatable ==
    /\ \A p \in Procs :
          /\ InNameOrder(proc[p].yielded)
          /\ SeqRange(proc[p].yielded) \subseteq proc[p].tree.f
    /\ \A w \in hist.walks :
          /\ InNameOrder(w.seq)
          /\ SeqRange(w.seq) = Under(w.base, w.f)
    /\ \A w1, w2 \in hist.walks :
          (/\ w1.base = w2.base
           /\ Under(w1.base, w1.d) = Under(w2.base, w2.d)
           /\ Under(w1.base, w1.f) = Under(w2.base, w2.f)) => w1.seq = w2.seq

\* two finished traversals of one unchanged tree that holds two files in one
\* directory and a file in each of two subdirectories of one directory
C13_Witness ==
    \E w1, w2 \in hist.walks :
        /\ w1.run = 1 /\ w2.run = 2
        /\ w1.d = w2.d /\ w1.f = w2.f
        /\ \E f, g \in SeqRange(w2.seq) : f # g /\ Parent(f) = Parent(g)
        /\ \E f, g \in SeqRange(w2.seq) :
              /\ Parent(f) # Parent(g)
              /\ Parent(Parent(f)) = Parent(Parent(g))
              /\ Len(f) > 2

\* positions of run.main between the flock and the finally clause
Traversal == {"cfg", "pair", "iter", "first", "walk", "remove", "prune", "pwalk"}
Holding == {"write_pid", "finally"} \cup Traversal

\* C14: an instance holds the lock from its flock to its finally clause and not
\* once it has ended, whichever way it ended (completion, sys.exit(1), an
\* exception nothing handles); two instances are never both inside the upload
\* traversal; and an instance that tries the flock while no other instance is
\* between its own flock and its end is granted the lock.
C14_LockHeldThenReleased ==
    /\ [](\A p \in Procs : (proc[p].pc \in Holding) = (lockHolder = p))
    /\ [](\A p, q \in Procs :
            (proc[p].pc \in Traversal /\ proc[q].pc \in Traversal) => p = q)
    /\ [][\A q \in Procs :
            (/\ proc[q].pc = "flock"
             /\ proc'[q].pc # "flock"
             /\ \A p \in Procs \ {q} : proc[p].pc \notin Holding)
            => (lockHolder' = q /\ proc'[q].pc = "write_pid")]_vars

\* an instance was ended inside the traversal by an exception nothing handles;
\* the other one took the lock, ran into a failed upload and left by sys.exit(1)
C14_Witness ==
    \E p, q \in Procs :
        /\ proc[p].pc = "exited" /\ proc[p].exc = "unexpected" /\ proc[p].pi = 1
        /\ proc[q].pc = "exited" /\ proc[q].exc = "upload_file:RuntimeError"
        /\ \E d \in hist.deleted : d.p = p
        /\ lockHolder = 0

====
